---- MODULE Spec2Model ----
(***************************************************************************)
(* Model of the Splito authentication backend: the inline handlers of      *)
(* server.js (register, login, profile, health, 404, error handler) over   *)
(* the mongoose User collection, and the register handler of               *)
(* controllers/auth.controller.js over its own User collection.            *)
(*                                                                         *)
(* Strings that the code transforms (emails, passwords) are sequences of   *)
(* one-character strings; literal strings of the code (messages, secrets)  *)
(* are TLA+ strings.  Time is in seconds, the unit of a JWT's iat and exp. *)
(***************************************************************************)
EXTENDS Integers, Sequences, FiniteSets, TLC

VARIABLES users, dbUp, now, ticks, held, last, reqs, ctrlUsers, pair

vars == <<users, dbUp, now, ticks, held, last, reqs, ctrlUsers, pair>>

(***************************************************************************)
(* Bounds of the model.                                                    *)
(***************************************************************************)
\* number of times the clock advances in one behaviour
MaxTicks == 2

(***************************************************************************)
(* Program constants.                                                      *)
(***************************************************************************)
\* server.js:96  password.length < 6
MinPasswordLength == 6
\* server.js:115  bcrypt.hash(password, 10)
SaltRounds == 10
\* server.js:135  expiresIn: '7d', in seconds
SevenDays == 604800
\* server.js:61
JWT_SECRET == "splito-jwt-secret-key-2024"
\* auth.controller.js:4 (default when the environment sets none)
CTRL_JWT_SECRET == "splito-secret-key-12345"

OneHour == 60 * 60
SixDays23Hours == SevenDays - OneHour
\* the amounts by which the clock advances in one step: to the last hour of a
\* token's life, to its expiry, and one second past it
ClockSteps == {SixDays23Hours, SevenDays, SevenDays + 1}

(***************************************************************************)
(* Request inputs.                                                         *)
(***************************************************************************)
\* The emails of requests, drawn from two addresses, as stored, in upper case
\* and with a blank before or after; and the empty and the blank email.  The empty string stands for a missing field too: both are falsy in
\* JS.
Emails ==
  {<<>>, <<" ">>,
   <<"a">>, <<"A">>, <<"A", " ">>,
   <<"b">>, <<" ", "B">>}

Repeat(c, n) == [i \in 1..n |-> c]

Passwords == {<<>>, Repeat("p", MinPasswordLength - 1),
              Repeat("p", MinPasswordLength), Repeat("q", MinPasswordLength)}

(***************************************************************************)
(* String.prototype.toLowerCase and String.prototype.trim.                 *)
(***************************************************************************)
LowerChar(c) == IF c = "A" THEN "a" ELSE IF c = "B" THEN "b" ELSE c

ToLowerCase(s) == [i \in 1..Len(s) |-> LowerChar(s[i])]

RECURSIVE TrimStart(_)
TrimStart(s) == IF s # <<>> /\ Head(s) = " " THEN TrimStart(Tail(s)) ELSE s

RECURSIVE TrimEnd(_)
TrimEnd(s) ==
  IF s # <<>> /\ s[Len(s)] = " " THEN TrimEnd(SubSeq(s, 1, Len(s) - 1)) ELSE s

Trim(s) == TrimEnd(TrimStart(s))

\* email.toLowerCase().trim()
NormalizeEmail(email) == Trim(ToLowerCase(email))

(***************************************************************************)
(* The User collection: userSchema and the mongoose operations on it.      *)
(* A user document is [id, email, password]; createdAt is left out, no     *)
(* handler reads it.                                                       *)
(***************************************************************************)
\* the setters of the email path: lowercase: true, trim: true
SchemaEmail(email) == Trim(ToLowerCase(email))

\* a new ObjectId: no document of the collection has it (documents are never deleted)
ObjectId(store) == Cardinality(store) + 1

\* new User({ email, password })
NewUser(store, email, password) ==
  [id |-> ObjectId(store), email |-> SchemaEmail(email), password |-> password]

\* User.findOne({ email: e }): the documents whose email is e
FindOne(store, e) == {u \in store : u.email = e}

\* User.findById(id)
FindById(store, id) == {u \in store : u.id = id}

\* .select('-password')
WithoutPassword(u) == [id |-> u.id, email |-> u.email]

\* a schema whose email path has no "unique: true"
NoUniqueIndex(store, doc) == TRUE

\* the unique index "unique: true" puts on email: a second document with the
\* same email is refused with a duplicate key error (E11000)
UniqueIndexAllows(store, doc) == \A u \in store : u.email # doc.email

\* "required: true": the empty string fails validation
RequiredValid(doc) == doc.email # <<>> /\ doc.password # <<>>

\* user.save(): the error it throws, or "ok"
SaveOutcome(store, up, doc) ==
  IF ~RequiredValid(doc) THEN "User validation failed"
  ELSE IF ~up THEN "store unavailable"
  ELSE IF ~UniqueIndexAllows(store, doc) THEN "E11000 duplicate key error"
  ELSE "ok"

(***************************************************************************)
(* bcryptjs.  A hash records the cost and what was hashed; the salt is     *)
(* left out: compare depends only on whether the plaintext is the hashed   *)
(* one.                                                                    *)
(***************************************************************************)
BcryptHash(password, rounds) == [alg |-> "bcrypt", cost |-> rounds, of |-> password]

BcryptCompare(password, hash) == hash.alg = "bcrypt" /\ hash.of = password

(***************************************************************************)
(* jsonwebtoken with HS256.  A token is its payload and a signature, the   *)
(* signature being the key and the payload it was computed over.           *)
(***************************************************************************)
HS256(key, payload) == [key |-> key, over |-> payload]

\* jwt.sign({ id, email }, secret, { expiresIn: '7d' }) at clock time t
JwtSign(id, email, secret, t) ==
  LET payload == [id |-> id, email |-> email, iat |-> t, exp |-> t + SevenDays]
  IN  [payload |-> payload, sig |-> HS256(secret, payload)]

\* jwt.verify with ignoreExpiration: the signature alone decides
JwtVerifyIgnoringExpiry(token, secret, t) ==
  IF token.sig # HS256(secret, token.payload) THEN "invalid signature" ELSE "ok"

\* jwt.decode in place of jwt.verify: the signature is not looked at
JwtDecodeOnly(token, secret, t) ==
  IF t >= token.payload.exp THEN "jwt expired" ELSE "ok"

\* jwt.verify(token, secret) at clock time t: "ok", or the error thrown
JwtVerify(token, secret, t) ==
  IF token.sig # HS256(secret, token.payload) THEN "invalid signature"
  ELSE IF t >= token.payload.exp THEN "jwt expired"
  ELSE "ok"

(***************************************************************************)
(* Responses: res.status(status).json(body).                               *)
(***************************************************************************)
Failure(status, message) ==
  [status |-> status, body |-> [success |-> FALSE, message |-> message]]

\* the 500 of a catch block: { success: false, message, error: error.message }
ServerError(message, error) ==
  [status |-> 500, body |-> [success |-> FALSE, message |-> message, error |-> error]]

\* the body of a successful register or login
AuthSuccess(status, message, user, token) ==
  [status |-> status,
   body |-> [success |-> TRUE, message |-> message,
             data |-> [user |-> WithoutPassword(user), token |-> token]]]

(***************************************************************************)
(* POST /api/auth/register of server.js, in the two stretches its awaits   *)
(* cut it into: up to the answer of findOne, and from there to the end.    *)
(***************************************************************************)
\* the existence lookup under the email as the request spells it
RawLookupKey(email) == email

\* the filter of the existence lookup
RegisterLookupKey(email) == NormalizeEmail(email)

\* validation and the existence lookup: the response sent, or "continue"
RegisterLookup(store, up, email, password) ==
  IF email = <<>> \/ password = <<>>
    THEN [continue |-> FALSE, resp |-> Failure(400, "Email and password are required")]
  ELSE IF Len(password) < MinPasswordLength
    THEN [continue |-> FALSE,
          resp |-> Failure(400, "Password must be at least 6 characters")]
  ELSE IF ~up
    THEN [continue |-> FALSE,
          resp |-> ServerError("Server error during registration", "store unavailable")]
  ELSE IF FindOne(store, RegisterLookupKey(email)) # {}
    THEN [continue |-> FALSE,
          resp |-> Failure(400, "User already exists with this email")]
  ELSE [continue |-> TRUE, resp |-> Failure(0, "pending")]

\* hash, new User, save, sign: the new collection and the response
RegisterSave(store, up, email, password, t) ==
  LET user == NewUser(store, NormalizeEmail(email), BcryptHash(password, SaltRounds))
      outcome == SaveOutcome(store, up, user)
  IN  IF outcome # "ok"
        THEN [store |-> store, token |-> <<>>,
              resp |-> ServerError("Server error during registration", outcome)]
        ELSE LET token == JwtSign(user.id, user.email, JWT_SECRET, t)
             IN  [store |-> store \cup {user}, token |-> <<token>>,
                  resp |-> AuthSuccess(201, "User registered successfully", user, token)]

\* the whole handler, nothing running between its two stretches
Register(store, up, email, password, t) ==
  LET l == RegisterLookup(store, up, email, password)
  IN  IF l.continue THEN RegisterSave(store, up, email, password, t)
      ELSE [store |-> store, token |-> <<>>, resp |-> l.resp]

(***************************************************************************)
(* POST /api/auth/login of server.js.                                      *)
(***************************************************************************)
\* the lookup of login under the email as the request spells it
RawLoginKey(email) == email

\* the filter of the user lookup
LoginLookupKey(email) == NormalizeEmail(email)

\* a response that tells an unknown email from a wrong password
LoginNoUserTold == Failure(404, "User not found")

LoginNoUser == Failure(401, "Invalid email or password")

LoginWrongPassword == Failure(401, "Invalid email or password")

Login(store, up, email, password, t) ==
  IF email = <<>> \/ password = <<>>
    THEN [token |-> <<>>, resp |-> Failure(400, "Email and password are required")]
  ELSE IF ~up
    THEN [token |-> <<>>, resp |-> ServerError("Server error during login", "store unavailable")]
  ELSE LET found == FindOne(store, LoginLookupKey(email))
       IN  IF found = {} THEN [token |-> <<>>, resp |-> LoginNoUser]
           ELSE LET user == CHOOSE u \in found : TRUE
                IN  IF ~BcryptCompare(password, user.password)
                      THEN [token |-> <<>>, resp |-> LoginWrongPassword]
                      ELSE LET token == JwtSign(user.id, user.email, JWT_SECRET, t)
                           IN  [token |-> <<token>>,
                                resp |-> AuthSuccess(200, "Login successful", user, token)]

(***************************************************************************)
(* GET /api/auth/profile of server.js.  The Authorization header is absent *)
(* or carries a credential (<<>> when nothing follows the scheme), with or *)
(* without the "Bearer " prefix.                                           *)
(***************************************************************************)
NoHeader == [present |-> FALSE, bearer |-> FALSE, cred |-> <<>>]

BearerHeader(token) == [present |-> TRUE, bearer |-> TRUE, cred |-> <<token>>]

\* req.headers.authorization?.replace('Bearer ', ''): the prefix, when there,
\* is dropped; an absent header gives undefined, falsy like the empty string
ExtractToken(header) == IF header.present THEN header.cred ELSE <<>>

Profile(store, up, header, t) ==
  LET cred == ExtractToken(header)
  IN  IF cred = <<>> THEN Failure(401, "No token provided")
      ELSE LET token == cred[1]
           IN  IF JwtVerify(token, JWT_SECRET, t) # "ok"
                 THEN Failure(401, "Invalid or expired token")
               ELSE IF ~up THEN Failure(401, "Invalid or expired token")
               ELSE LET found == FindById(store, token.payload.id)
                    IN  IF found = {} THEN Failure(404, "User not found")
                        ELSE [status |-> 200,
                              body |-> [success |-> TRUE,
                                        data |-> WithoutPassword(CHOOSE u \in found : TRUE)]]

(***************************************************************************)
(* GET /api/health, the 404 handler and the global error handler.          *)
(***************************************************************************)
Health(up, t) ==
  [status |-> 200,
   body |-> [status |-> "OK", message |-> "Splito Backend is running",
             timestamp |-> t,
             database |-> IF up THEN "connected" ELSE "disconnected",
             endpoints |-> [register |-> "POST /api/auth/register",
                            login |-> "POST /api/auth/login",
                            health |-> "GET /api/health"]]]

NotFound == Failure(404, "Route not found")

\* an error handler that sends the error alone
ErrorHandlerBare(error) == [status |-> 500, body |-> [error |-> error]]

ErrorHandler(error) == ServerError("Internal server error", error)

(***************************************************************************)
(* register of controllers/auth.controller.js, the whole handler.  Its     *)
(* User model (../models/User.model) is outside the sources: saving is     *)
(* taken from the Credential Store contract (create fails on a duplicate   *)
(* email; the stored password is a hash).                                  *)
(***************************************************************************)
\* the filter of the existence lookup: findOne({ email })
CtrlLookupKey(email) == email

CtrlSaveOutcome(store, up, doc) ==
  IF ~RequiredValid(doc) THEN "User validation failed"
  ELSE IF ~up THEN "store unavailable"
  ELSE IF \E u \in store : u.email = doc.email THEN "DuplicateEmail"
  ELSE "ok"

CtrlStoredPassword(password) == BcryptHash(password, SaltRounds)

CtrlRegister(store, up, email, password, t) ==
  IF email = <<>> \/ password = <<>>
    THEN [store |-> store, resp |-> Failure(400, "Please provide email and password")]
  ELSE IF Len(password) < MinPasswordLength
    THEN [store |-> store, resp |-> Failure(400, "Password must be at least 6 characters")]
  ELSE IF ~up
    THEN [store |-> store, resp |-> ServerError("Error in registration", "store unavailable")]
  ELSE IF FindOne(store, CtrlLookupKey(email)) # {}
    THEN [store |-> store, resp |-> Failure(400, "User already exists with this email")]
  ELSE LET user == [id |-> ObjectId(store), email |-> Trim(ToLowerCase(email)),
                    password |-> CtrlStoredPassword(password)]
           outcome == CtrlSaveOutcome(store, up, user)
       IN  IF outcome # "ok"
             THEN [store |-> store, resp |-> ServerError("Error in registration", outcome)]
             ELSE [store |-> store \cup {user},
                   resp |-> AuthSuccess(201, "User registered successfully", user,
                                        JwtSign(user.id, user.email, CTRL_JWT_SECRET, t))]

(***************************************************************************)
(* State.                                                                  *)
(*   users      the User collection of server.js                           *)
(*   dbUp       mongoose.connection.readyState === 1                       *)
(*   now        the clock, in seconds; ticks counts its advances           *)
(*   held       the token the client holds: the last one it was sent       *)
(*   last       the last request handled as a whole (its email or its       *)
(*              Authorization header) and the response to it               *)
(*   reqs       the register requests in flight, one per connection        *)
(*   ctrlUsers  the User collection of the controller                      *)
(*   pair       the responses of the two register handlers to one request  *)
(***************************************************************************)
Procs == {"c1", "c2"}

NoResp == Failure(0, "none")

Idle == [pc |-> "idle", email |-> <<>>, password |-> <<>>, resp |-> NoResp]

Init ==
  /\ users = {}
  /\ dbUp = TRUE
  /\ now = 0
  /\ ticks = 0
  /\ held = <<>>
  /\ last = [op |-> "none", req |-> <<>>, resp |-> NoResp]
  /\ reqs = [p \in Procs |-> Idle]
  /\ ctrlUsers = {}
  /\ pair = [req |-> <<>>, server |-> NoResp, ctrl |-> NoResp]

(***************************************************************************)
(* Concurrent register requests: a request runs up to the answer of its    *)
(* lookup, and later from there to its response.                           *)
(***************************************************************************)
RegisterRequest(p, email, password) ==
  /\ reqs[p].pc \in {"idle", "done"}
  /\ LET l == RegisterLookup(users, dbUp, email, password)
     IN  reqs' = [reqs EXCEPT ![p] =
                    [pc |-> IF l.continue THEN "save" ELSE "done",
                     email |-> IF l.continue THEN email ELSE <<>>,
                     password |-> IF l.continue THEN password ELSE <<>>,
                     resp |-> IF l.continue THEN NoResp ELSE l.resp]]
  /\ UNCHANGED <<users, dbUp, now, ticks, held, last, ctrlUsers, pair>>

RegisterComplete(p) ==
  /\ reqs[p].pc = "save"
  /\ LET s == RegisterSave(users, dbUp, reqs[p].email, reqs[p].password, now)
     IN  /\ users' = s.store
         /\ held' = IF s.token = <<>> THEN held ELSE s.token
         /\ reqs' = [reqs EXCEPT ![p] = [Idle EXCEPT !.pc = "done", !.resp = s.resp]]
  /\ UNCHANGED <<dbUp, now, ticks, last, ctrlUsers, pair>>

StoreDown ==
  /\ dbUp
  /\ dbUp' = FALSE
  /\ UNCHANGED <<users, now, ticks, held, last, reqs, ctrlUsers, pair>>

StoreUp ==
  /\ ~dbUp
  /\ dbUp' = TRUE
  /\ UNCHANGED <<users, now, ticks, held, last, reqs, ctrlUsers, pair>>

Next ==
  \/ \E p \in Procs, email \in Emails, password \in Passwords :
        RegisterRequest(p, email, password)
  \/ \E p \in Procs : RegisterComplete(p)
  \/ StoreDown
  \/ StoreUp

Spec == Init /\ [][Next]_vars

(***************************************************************************)
(* Requests handled one at a time, each as a whole, with the clock         *)
(* advancing between them.                                                 *)
(***************************************************************************)
RegisterCall(email, password) ==
  /\ LET r == Register(users, dbUp, email, password, now)
     IN  /\ users' = r.store
         /\ held' = IF r.token = <<>> THEN held ELSE r.token
         /\ last' = [op |-> "register", req |-> [email |-> email], resp |-> r.resp]
  /\ UNCHANGED <<dbUp, now, ticks, reqs, ctrlUsers, pair>>

LoginCall(email, password) ==
  /\ LET r == Login(users, dbUp, email, password, now)
     IN  /\ held' = IF r.token = <<>> THEN held ELSE r.token
         /\ last' = [op |-> "login", req |-> [email |-> email],
                     resp |-> r.resp]
  /\ UNCHANGED <<users, dbUp, now, ticks, reqs, ctrlUsers, pair>>

\* what a client can put where a token goes: a token the server held, or one
\* made from it by changing a claim, by signing it again with another key, or
\* by removing the key
Tampered(token) ==
  {[token EXCEPT !.payload.id = i] : i \in (1..(Cardinality(users) + 1)) \ {token.payload.id}}
    \cup {[token EXCEPT !.payload.exp = @ + SevenDays]}
    \cup {[token EXCEPT !.sig = HS256(CTRL_JWT_SECRET, token.payload)]}
    \cup {[token EXCEPT !.sig = HS256("none", token.payload)]}

Headers ==
  {NoHeader, [present |-> TRUE, bearer |-> TRUE, cred |-> <<>>]}
    \cup {[present |-> TRUE, bearer |-> b, cred |-> <<t>>] :
            b \in BOOLEAN,
            t \in IF held = <<>> THEN {} ELSE {held[1]} \cup Tampered(held[1])}

ProfileCall(header) ==
  /\ last' = [op |-> "profile", req |-> header, resp |-> Profile(users, dbUp, header, now)]
  /\ UNCHANGED <<users, dbUp, now, ticks, held, reqs, ctrlUsers, pair>>

HealthCall ==
  /\ last' = [op |-> "health", req |-> <<>>, resp |-> Health(dbUp, now)]
  /\ UNCHANGED <<users, dbUp, now, ticks, held, reqs, ctrlUsers, pair>>

\* a request no route matches
UnmatchedRoute ==
  /\ last' = [op |-> "unmatched", req |-> <<>>, resp |-> NotFound]
  /\ UNCHANGED <<users, dbUp, now, ticks, held, reqs, ctrlUsers, pair>>

\* a request whose body express.json() cannot parse: the error reaches the
\* global error handler
MalformedBody ==
  /\ last' = [op |-> "error", req |-> <<>>, resp |-> ErrorHandler("Unexpected token")]
  /\ UNCHANGED <<users, dbUp, now, ticks, held, reqs, ctrlUsers, pair>>

Tick(d) ==
  /\ ticks < MaxTicks
  /\ now' = now + d
  /\ ticks' = ticks + 1
  /\ UNCHANGED <<users, dbUp, held, last, reqs, ctrlUsers, pair>>

NextApi ==
  \/ \E email \in Emails, password \in Passwords : RegisterCall(email, password)
  \/ \E email \in Emails, password \in Passwords : LoginCall(email, password)
  \/ \E header \in Headers : ProfileCall(header)
  \/ HealthCall
  \/ UnmatchedRoute
  \/ MalformedBody
  \/ StoreDown
  \/ StoreUp

SpecApi == Init /\ [][NextApi]_vars

NextAuth ==
  \/ \E email \in Emails, password \in Passwords : RegisterCall(email, password)
  \/ \E email \in Emails, password \in Passwords : LoginCall(email, password)
  \/ \E header \in Headers : ProfileCall(header)
  \/ \E d \in ClockSteps : Tick(d)

SpecAuth == Init /\ [][NextAuth]_vars

(***************************************************************************)
(* The two register handlers side by side: every request is given to both, *)
(* each over its own collection, the two collections sharing one database  *)
(* connection.                                                             *)
(***************************************************************************)
SideBySide(email, password) ==
  /\ LET r == Register(users, dbUp, email, password, now)
         c == CtrlRegister(ctrlUsers, dbUp, email, password, now)
     IN  /\ users' = r.store
         /\ ctrlUsers' = c.store
         /\ pair' = [req |-> [email |-> email], server |-> r.resp, ctrl |-> c.resp]
  /\ UNCHANGED <<dbUp, now, ticks, held, last, reqs>>

NextEquiv ==
  \/ \E email \in Emails, password \in Passwords : SideBySide(email, password)
  \/ StoreDown
  \/ StoreUp

SpecEquiv == Init /\ [][NextEquiv]_vars

(***************************************************************************)
(* Properties.                                                             *)
(***************************************************************************)
AlreadyExists == Failure(400, "User already exists with this email")

DuplicateKeyError ==
  ServerError("Server error during registration", "E11000 duplicate key error")

Created(p) == reqs[p].pc = "done" /\ reqs[p].resp.status = 201

\* C1: under any interleaving of the lookup and save steps of concurrent
\* register requests, no two stored users share an email, and no two requests
\* are both answered 201 for the same normalized email.
C1_UniqueEmail ==
  /\ \A u, v \in users : u.email = v.email => u = v
  /\ \A p, q \in Procs :
        (p # q /\ Created(p) /\ Created(q))
          => reqs[p].resp.body.data.user.email # reqs[q].resp.body.data.user.email

\* two requests for one email both passed the lookup, then both ran their
\* save: one created the user, the store refused the other
C1_Witness ==
  \E p, q \in Procs :
    /\ Created(p)
    /\ reqs[q].pc = "done" /\ reqs[q].resp = DuplicateKeyError
    /\ \E u \in users : u.email = reqs[p].resp.body.data.user.email

\* C9: in every interleaving of two register requests for one normalized
\* email, the request that does not create the user is answered 400
\* AlreadyExists: a request that completes while the store is up and a user
\* with its normalized email is stored gets that response.
C9_LoserGetsAlreadyExists ==
  [][\A p \in Procs :
       (/\ RegisterComplete(p)
        /\ dbUp
        /\ \E u \in users : u.email = NormalizeEmail(reqs[p].email))
         => reqs'[p].resp = AlreadyExists]_vars

\* C2: a register request whose email normalizes to the email of a stored
\* user (the earlier register having succeeded), handled with the store up
\* and a password of valid length, is answered 400 AlreadyExists, and the
\* store still holds exactly one user with that email.
C2_SecondRegisterAlreadyExists ==
  [][(last'.op = "register" /\ dbUp) =>
     \A password \in Passwords :
       LET email == last'.req.email IN
       (/\ Len(password) >= MinPasswordLength
        /\ FindOne(users, NormalizeEmail(email)) # {}
        /\ RegisterCall(email, password))
         => /\ last'.resp = AlreadyExists
            /\ Cardinality(FindOne(users', NormalizeEmail(email))) = 1
            /\ users' = users]_vars

\* the second request spelled the email otherwise than it is stored
C2_Witness ==
  /\ last.op = "register"
  /\ last.resp = AlreadyExists
  /\ \E u \in users :
        u.email = NormalizeEmail(last.req.email) /\ u.email # last.req.email

InvalidCredentials == Failure(401, "Invalid email or password")

Unauthenticated == Failure(401, "Invalid or expired token")

\* C3: once a register has stored a user, a login with the password that was
\* registered and any email that normalizes to the stored one is answered
\* 200 with a token that verification accepts, whose id is the id of the
\* user that registration created, and that the profile operation accepts.
C3_RegisteredLoginSucceeds ==
  [][(last'.op = "login" /\ dbUp) =>
     \A password \in Passwords, u \in users :
       LET email == last'.req.email IN
         (/\ u.email = NormalizeEmail(email)
          /\ BcryptCompare(password, u.password)
          /\ LoginCall(email, password))
           => /\ last'.resp.status = 200
              /\ last'.resp.body.success = TRUE
              /\ LET token == last'.resp.body.data.token
                 IN  /\ JwtVerify(token, JWT_SECRET, now') = "ok"
                     /\ token.payload.id = u.id
                     /\ held' = <<token>>
                     /\ Profile(users', dbUp', BearerHeader(token), now')
                          = [status |-> 200,
                             body |-> [success |-> TRUE, data |-> WithoutPassword(u)]]]_vars

\* a login some time after the registration, spelling the email otherwise
\* than it is stored
C3_Witness ==
  /\ last.op = "login"
  /\ last.resp.status = 200
  /\ last.resp.body.data.user.email # last.req.email
  /\ last.resp.body.data.token.payload.iat > 0
  /\ \E u \in users : u.id = last.resp.body.data.token.payload.id

\* what C4 says of the token the client holds, at the current time
C4_Window ==
  held # <<>> =>
    LET token == held[1]
        issuedAt == token.payload.iat
        answer == Profile(users, dbUp, BearerHeader(token), now)
    IN  /\ token.payload.exp = issuedAt + SevenDays
        /\ now <= issuedAt + SixDays23Hours
             => JwtVerify(token, JWT_SECRET, now) = "ok" /\ answer.status = 200
        /\ now >= issuedAt + SevenDays + 1
             => JwtVerify(token, JWT_SECRET, now) # "ok" /\ answer = Unauthenticated

\* C4: a token issued at T has exp = T + 7 days; the profile operation's
\* verification accepts it from T to T + 6 days 23 hours and rejects it at
\* T + 7 days 1 second and later; once rejected it is never accepted again.
C4_TokenLifetime ==
  [][/\ C4_Window'
     /\ \A cred \in {held, held'} :
          (cred # <<>> /\ JwtVerify(cred[1], JWT_SECRET, now) # "ok")
            => JwtVerify(cred[1], JWT_SECRET, now') # "ok"]_vars

\* the held token, presented unmodified after its expiry, was rejected
C4_Witness ==
  /\ held # <<>>
  /\ last.op = "profile"
  /\ last.req = BearerHeader(held[1])
  /\ last.resp = Unauthenticated
  /\ now >= held[1].payload.iat + SevenDays + 1

\* the held token is one this server signed for a stored user
IssuedHere(token) ==
  \E u \in users :
    token = JwtSign(u.id, u.email, JWT_SECRET, token.payload.iat)

\* C5: the profile operation answers 200 with user data only to the token
\* this server issued (by register or login) for that user, unmodified and
\* unexpired; without an Authorization header, and with a tampered token, it
\* answers 401 and sends no user data.
C5_ProfileNeedsGenuineToken ==
  [][last'.op = "profile" =>
     \A header \in Headers :
       ProfileCall(header) =>
         /\ last'.resp.status = 200
              => /\ header.cred = held
                 /\ IssuedHere(held[1])
                 /\ now < held[1].payload.exp
                 /\ last'.resp.body.data.id = held[1].payload.id
                 /\ last'.resp.body.data.email = held[1].payload.email
         /\ ~header.present
              => last'.resp.status = 401 /\ "data" \notin DOMAIN last'.resp.body
         /\ (header.cred # <<>> /\ header.cred # held)
              => last'.resp = Unauthenticated]_vars

\* an unexpired token with another user's id put in its payload, the
\* signature kept, was presented and rejected
C5_Witness ==
  /\ held # <<>>
  /\ JwtVerify(held[1], JWT_SECRET, now) = "ok"
  /\ last.op = "profile"
  /\ last.req.cred # <<>>
  /\ last.req.cred[1].sig = held[1].sig
  /\ last.req.cred[1].payload.id # held[1].payload.id
  /\ \E u \in users : u.id = last.req.cred[1].payload.id
  /\ last.resp = Unauthenticated

\* C6: in every state of the store, a login for an email no user has and a
\* login for a stored email with a wrong password get the same response:
\* status 401, the same success value and the same message.
C6_SameInvalidCredentials ==
  dbUp =>
    \A unknown \in Emails \ {<<>>}, known \in Emails, p1, p2 \in Passwords \ {<<>>} :
      (/\ FindOne(users, NormalizeEmail(unknown)) = {}
       /\ \E u \in FindOne(users, NormalizeEmail(known)) : ~BcryptCompare(p2, u.password))
        => LET r1 == Login(users, dbUp, unknown, p1, now).resp
               r2 == Login(users, dbUp, known, p2, now).resp
           IN  /\ r1.status = 401 /\ r2.status = 401
               /\ r1.body.success = r2.body.success
               /\ r1.body.message = r2.body.message
               /\ r1 = r2

\* a login with a wrong password for a stored email was refused, while
\* another email of the inputs is still unknown
C6_Witness ==
  /\ last.op = "login"
  /\ last.resp = InvalidCredentials
  /\ FindOne(users, NormalizeEmail(last.req.email)) # {}
  /\ \E e \in Emails \ {<<>>} : FindOne(users, NormalizeEmail(e)) = {}
  /\ dbUp

\* C7: a profile request with a valid, unexpired token whose user lookup
\* fails because the store is down is answered 500, and 401 is returned only
\* for a missing, invalid or expired token.
C7_StoreFailureIs500 ==
  [][last'.op = "profile" =>
     \A header \in Headers :
       ProfileCall(header) =>
         /\ (/\ ~dbUp
             /\ header.cred # <<>>
             /\ JwtVerify(header.cred[1], JWT_SECRET, now) = "ok")
              => last'.resp.status = 500
         /\ last'.resp.status = 401
              => \/ ExtractToken(header) = <<>>
                 \/ JwtVerify(header.cred[1], JWT_SECRET, now) # "ok"]_vars

Envelope(resp) ==
  /\ "success" \in DOMAIN resp.body
  /\ resp.body.success \in BOOLEAN
  /\ (resp.status >= 400 \/ ~resp.body.success) => "message" \in DOMAIN resp.body

\* C8 as stated: every response of every endpoint (register, login, profile,
\* health, unmatched route, global error handler) carries a boolean success,
\* and every failure response a message.
C8_EveryResponseEnvelope == last.op # "none" => Envelope(last.resp)

\* C8 as amended: the responses of register, login, profile, the unmatched
\* route and the global error handler carry a boolean success, and a message
\* when they are failures; the health response is a 200 that carries status,
\* message, timestamp, database and endpoints, and no success field.
C8_EnvelopeExceptHealth ==
  /\ last.op \notin {"none", "health"} => Envelope(last.resp)
  /\ last.op = "health"
       => /\ last.resp.status = 200
          /\ DOMAIN last.resp.body
               = {"status", "message", "timestamp", "database", "endpoints"}

\* the global error handler has answered
C8_Witness ==
  /\ last.op = "error"
  /\ last.resp.status = 500
  /\ last.resp.body.success = FALSE

StoredEmails(store) == {u.email : u \in store}

\* C10: given the same requests from the same initial store, the register of
\* the controller and the register of server.js answer each request with the
\* same status and leave the same set of stored emails.
C10_RegistersEquivalent ==
  /\ pair.server.status = pair.ctrl.status
  /\ StoredEmails(users) = StoredEmails(ctrlUsers)

====
